---- MODULE Spec2Model ----
(***************************************************************************)
(* The WTL HLR/HSS connector: an inbound billing event is filtered, turned *)
(* into a provisioning request, posted once to the provisioning core, and  *)
(* the outcome of that call is translated into the inbound HTTP response.  *)
(*                                                                         *)
(* Python values are represented as follows.  An Optional value is a tuple *)
(* of length 0 (None) or 1 (the value).  Strings that the code inspects    *)
(* character by character (IMSI, account id, profile names) are tuples of  *)
(* one-character strings; strings that are only compared or passed through *)
(* are TLA+ strings.                                                       *)
(***************************************************************************)
EXTENDS Integers, Sequences, FiniteSets, TLC

\* ------------------------------------------------------------------ values

None == <<>>
Some(v) == <<v>>
IsNone(o) == o = <<>>
Val(o) == o[1]

\* Python's `a and b` where a is an Optional holding a model object (always truthy).
PyAnd(a, b) == IF IsNone(a) THEN None ELSE b

\* Truthiness of an Optional[str] whose value is a tuple of characters.
TruthyStr(o) == ~IsNone(o) /\ Val(o) # <<>>

\* Truthiness of an Optional[bool].
TruthyBool(o) == ~IsNone(o) /\ Val(o)

Digits == {"0", "1", "2", "3", "4", "5", "6", "7", "8", "9"}

Letters ==
    {"a", "b", "c", "d", "e", "f", "g", "h", "i", "j", "k", "l", "m",
     "n", "o", "p", "q", "r", "s", "t", "u", "v", "w", "x", "y", "z",
     "A", "B", "C", "D", "E", "F", "G", "H", "I", "J", "K", "L", "M",
     "N", "O", "P", "Q", "R", "S", "T", "U", "V", "W", "X", "Y", "Z"}

\* ------------------------------------------------------------------ bounds

\* Longest access-policy attribute list carried by an event.
MaxAttrs == 1

\* Events handled concurrently.
NumWorkers == 2

\* Outbound HTTP clients constructed over a run.
MaxClients == 3

\* Longest attribute list given to the profile lookup on its own.
MaxProfileAttrs == 2

\* ------------------------------------------------------------------ inputs

Imsi1 == <<"0","0","1","0","1","0","0","0","0","0","2","0","3","4","9">>
Imsi2 == <<"9","0","1","7","0","0","0","0","0","0","5","0","1","7","0">>
ImsiShort == <<"0","0","1","0","1">>

\* CardInfo.imsi: Optional[str]
ImsiValues == {None, Some(<<>>), Some(Imsi1), Some(Imsi2), Some(ImsiShort)}

AccountDigits == <<"3","8","0","6","6","1","3","1","0","7","6","4">>
Marker == <<"@","m","s","i","s","d","n">>

\* AccountInfo.id: Optional[str]
IdValues == {None, Some(AccountDigits \o Marker), Some(AccountDigits)}

\* AccountInfo.bill_status: Optional[str]
BillStatusValues == {None, Some("open"), Some("suspended")}

\* AccountInfo.blocked: Optional[bool]
BlockedValues == {None, Some(TRUE), Some(FALSE)}

AccountInfos ==
    [bill_status : BillStatusValues, blocked : BlockedValues, id : IdValues]

CardInfos == [imsi : ImsiValues]

CsPolicy == <<"c","s","-","p","o","l","i","c","y">>
BadPolicy == <<"9","x">>

\* AccessPolicyAttribute: name and value are Optional[str]
Attributes ==
    { [name |-> Some("cs_profile"), value |-> Some(CsPolicy)],
      [name |-> Some("cs_profile"), value |-> None],
      [name |-> Some("eps_profile"), value |-> Some(BadPolicy)] }

AttributeLists ==
    UNION { [1..n -> Attributes] : n \in 0..MaxAttrs }

AccessPolicyInfos == [attributes : AttributeLists]

Opt(S) == {None} \cup {Some(x) : x \in S}

PBDatas ==
    [account_info : Opt(AccountInfos),
     sim_info : Opt(CardInfos),
     access_policy_info : Opt(AccessPolicyInfos)]

EventTypes == {"SIM/Updated", "SIM/Created", ""}

\* Event: data.event_type is required, pb_data is optional.
Events == [event_type : EventTypes, pb_data : Opt(PBDatas)]

\* An IMSI pattern: an optional "^", a sequence of character classes, an
\* optional "$".  The pattern string is empty when all three are absent.
PatNone == None
PatEmpty == Some([bos |-> FALSE, lit |-> <<>>, eos |-> FALSE])
PatInner ==
    Some([bos |-> FALSE, lit |-> <<{"5"}, {"0"}, {"1"}, {"7"}, Digits>>, eos |-> FALSE])

\* settings.WTL_IMSI_REGEXP: Optional[str]
ImsiRegexps == {PatNone, PatEmpty, PatInner}

DefaultProfile == <<"d","e","f","a","u","l","t">>

\* ------------------------------------------------------------------ settings

\* settings.WTL_DEFAULT_CS_PROFILE
WTL_DEFAULT_CS_PROFILE == DefaultProfile

\* settings.WTL_DEFAULT_EPS_PROFILE
WTL_DEFAULT_EPS_PROFILE == DefaultProfile

\* ------------------------------------------------------------------ strings

\* sub occurs in s starting at position i
OccursAt(s, sub, i) ==
    /\ i + Len(sub) - 1 <= Len(s)
    /\ \A k \in 1..Len(sub) : s[i + k - 1] = sub[k]

\* Python's `sub in s`
Contains(s, sub) == \E i \in 1..(Len(s) + 1) : OccursAt(s, sub, i)

\* Python's `s.split(sub)[0]`: the part of s before the first occurrence of sub,
\* the whole of s when sub does not occur.
SplitFirst(s, sub) ==
    IF Contains(s, sub)
    THEN LET i == CHOOSE j \in 1..(Len(s) + 1) :
                      /\ OccursAt(s, sub, j)
                      /\ \A h \in 1..(j - 1) : ~OccursAt(s, sub, h)
         IN SubSeq(s, 1, i - 1)
    ELSE s

\* re.search(pattern, s) for a pattern of the form ^? class* $?
ReSearch(p, s) ==
    \E i \in 1..(Len(s) + 1) :
        /\ p.bos => i = 1
        /\ i + Len(p.lit) - 1 <= Len(s)
        /\ \A k \in 1..Len(p.lit) : s[i + k - 1] \in p.lit[k]
        /\ p.eos => i + Len(p.lit) - 1 = Len(s)

\* Truthiness of the configured pattern: None and the empty string are falsy.
PatternTruthy(o) ==
    /\ ~IsNone(o)
    /\ (Val(o).bos \/ Val(o).eos \/ Val(o).lit # <<>>)

\* ------------------------------------------------------------------ pb_event.py

\* PortaBillingEventProcessor.__init__
AccountInfoOf(ev) == PyAnd(ev.pb_data, Val(ev.pb_data).account_info)
AccessPolicyInfoOf(ev) == PyAnd(ev.pb_data, Val(ev.pb_data).access_policy_info)
SimInfoOf(ev) == PyAnd(ev.pb_data, Val(ev.pb_data).sim_info)

get_event_type(ev) == ev.event_type

get_imsi_from_sim_info(ev) == PyAnd(SimInfoOf(ev), Val(SimInfoOf(ev)).imsi)

validate_imsi_using_regex_Inverted(regexp, imsi) ==
    IF PatternTruthy(regexp) /\ ReSearch(Val(regexp), imsi) THEN FALSE ELSE TRUE

validate_imsi_using_regex(regexp, imsi) ==
    IF PatternTruthy(regexp) /\ ~ReSearch(Val(regexp), imsi) THEN FALSE ELSE TRUE

\* get_account_id raises TypeError when account_info.id is None
get_account_id_raises(ev) ==
    /\ ~IsNone(AccountInfoOf(ev))
    /\ IsNone(Val(AccountInfoOf(ev)).id)

get_account_id_RawFallback(ev) ==
    IF IsNone(AccountInfoOf(ev))
    THEN None
    ELSE LET account_id == Val(Val(AccountInfoOf(ev)).id)
         IN Some(SplitFirst(account_id, Marker))

get_account_id(ev) ==
    IF IsNone(AccountInfoOf(ev))
    THEN None
    ELSE LET account_id == Val(Val(AccountInfoOf(ev)).id)
         IN IF Contains(account_id, Marker)
            THEN Some(SplitFirst(account_id, Marker))
            ELSE None

get_bill_status(ev) == PyAnd(AccountInfoOf(ev), Val(AccountInfoOf(ev)).bill_status)

get_block_status(ev) == PyAnd(AccountInfoOf(ev), Val(AccountInfoOf(ev)).blocked)

_get_profile_value_LastMatch(attributes, name) ==
    LET pos == {k \in 1..Len(attributes) : attributes[k].name = Some(name)}
    IN IF pos = {}
       THEN None
       ELSE attributes[CHOOSE k \in pos : \A j \in pos : j <= k].value

RECURSIVE _get_profile_value(_, _)
_get_profile_value(attributes, name) ==
    IF attributes = <<>>
    THEN None
    ELSE IF Head(attributes).name = Some(name)
         THEN Head(attributes).value
         ELSE _get_profile_value(Tail(attributes), name)

_get_profile(ev, profile_name, default_value) ==
    LET policy_info == AccessPolicyInfoOf(ev)
        profile == _get_profile_value(Val(policy_info).attributes, profile_name)
    IN IF ~IsNone(policy_info) /\ TruthyStr(profile)
       THEN Val(profile)
       ELSE default_value

get_cs_profile(ev) == _get_profile(ev, "cs_profile", WTL_DEFAULT_CS_PROFILE)

get_eps_profile(ev) == _get_profile(ev, "eps_profile", WTL_DEFAULT_EPS_PROFILE)

\* ------------------------------------------------------------------ models/wtl.py

is_successful_MessageFirst(r) ==
    IF ~IsNone(r.result) THEN Val(r.result)
    ELSE IF ~IsNone(r.message) THEN TRUE
    ELSE IF ~IsNone(r.error) THEN FALSE
    ELSE TRUE

\* WTLResponse.is_successful
is_successful(r) ==
    IF ~IsNone(r.result) THEN Val(r.result)
    ELSE IF ~IsNone(r.message) /\ IsNone(r.error) THEN TRUE
    ELSE IF ~IsNone(r.error) THEN FALSE
    ELSE TRUE

EVENT_ACTION_MAP_Catchall(event_type) == Some("update")

\* EVENT_ACTION_MAP.get(event_type)
EVENT_ACTION_MAP(event_type) ==
    IF event_type = "SIM/Updated" THEN Some("update") ELSE None

\* WTLBaseRequest.imsi: pattern ^[0-9]{15}$
ImsiFieldValid(imsi) ==
    /\ Len(imsi) = 15
    /\ \A k \in 1..Len(imsi) : imsi[k] \in Digits

\* ServiceProfile.cs_profile / eps_profile: pattern ^[a-zA-Z][-_.a-zA-Z0-9]*$
ProfileFieldValid(p) ==
    /\ Len(p) >= 1
    /\ p[1] \in Letters
    /\ \A k \in 2..Len(p) : p[k] \in Letters \cup Digits \cup {"-", "_", "."}

\* MSISDNList.msisdn: List[str] with at most one item
MsisdnFieldValid(l) ==
    /\ Len(l) <= 1
    /\ \A k \in 1..Len(l) : ~IsNone(l[k])

UnifiedSyncRequestValid_NoMsisdnCheck(imsi, msisdn, cs_profile, eps_profile) ==
    /\ ImsiFieldValid(imsi)
    /\ ProfileFieldValid(cs_profile)
    /\ ProfileFieldValid(eps_profile)

\* UnifiedSyncRequest(...) validates its fields
UnifiedSyncRequestValid(imsi, msisdn, cs_profile, eps_profile) ==
    /\ ImsiFieldValid(imsi)
    /\ MsisdnFieldValid(msisdn)
    /\ ProfileFieldValid(cs_profile)
    /\ ProfileFieldValid(eps_profile)

\* ------------------------------------------------------------------ the provisioning core

\* What the outbound POST can produce: an exception of the HTTP library, or a
\* response with a status and a body.
TimeoutExceptions == {"ReadTimeout", "ConnectTimeout", "WriteTimeout", "PoolTimeout"}

TransportExceptions == TimeoutExceptions \cup {"ConnectError"}

Statuses == {200, 401, 404, 429, 500}

NoFields == [result |-> None, error |-> None, message |-> None]

\* A body is not JSON, JSON that is not an object, an object whose fields have
\* the wrong types, or an object that validates as a WTLResponse.
Bodies ==
    { [json |-> k, fields |-> NoFields] : k \in {"notjson", "notobject", "badtypes"} }
    \cup
    { [json |-> "object", fields |-> f] :
        f \in [result : Opt(BOOLEAN),
               error : Opt({"", "subscriber not found"}),
               message : Opt({"ok"})] }

Replies ==
    { [kind |-> "exception", exc |-> x, status |-> 0,
       body |-> [json |-> "notjson", fields |-> NoFields]] : x \in TransportExceptions }
    \cup
    { [kind |-> "response", exc |-> "", status |-> st, body |-> b] :
        st \in Statuses, b \in Bodies }

\* httpx: Response.is_success, the test raise_for_status applies
IsSuccessStatus(st) == st >= 200 /\ st <= 299

\* response.json() followed by WTLResponse.model_validate(...)
BodyParses(b) == b.json = "object"

\* Python's `error or "Unknown error"` on an Optional[str]
ErrorOrUnknown(e) == IF IsNone(e) \/ Val(e) = "" THEN "Unknown error" ELSE Val(e)

\* ------------------------------------------------------------------ services/wtl_client.py

ErrorResponse(message, error, type) ==
    [message |-> message, error |-> error, type |-> type]

AuthenticationError(message, error) == ErrorResponse(message, error, "authentication_error")
WTLServiceError(message, error) == ErrorResponse(message, error, "service_error")
ConnectionError(message, error) == ErrorResponse(message, error, "connection_error")
RateLimitError(message, error) == ErrorResponse(message, error, "rate_limit_error")
InternalError(message, error) == ErrorResponse(message, error, "internal_error")

\* str(e) of an httpx.HTTPStatusError
HTTPStatusErrorText == "HTTPStatusError"

\* The body of the try statement of _make_request: the exception class it ends
\* with ("" when it returns), the response it parsed, and the success flag it
\* computed from it.
TryBody(reply) ==
    LET b == reply.body
        parses == BodyParses(b)
        flag == is_successful(b.fields)
    IN [exc |->
            IF reply.kind = "exception" THEN reply.exc
            ELSE IF ~IsSuccessStatus(reply.status) THEN "HTTPStatusError"
            ELSE IF b.json = "notjson" THEN "JSONDecodeError"
            ELSE IF ~parses THEN "ValidationError"
            ELSE IF ~flag THEN "WTLServiceError"
            ELSE "",
        parsed |->
            IF reply.kind = "response" /\ IsSuccessStatus(reply.status) /\ parses
            THEN Some(b.fields) ELSE None,
        successful |->
            IF reply.kind = "response" /\ IsSuccessStatus(reply.status) /\ parses
            THEN Some(flag) ELSE None]

HandleHTTPStatusError_NoRateLimit(status, body) ==
    IF status = 401
    THEN AuthenticationError("WTL API authentication failed", "Invalid API token")
    ELSE WTLServiceError("WTL service error",
                         IF BodyParses(body)
                         THEN ErrorOrUnknown(body.fields.error)
                         ELSE HTTPStatusErrorText)

\* except httpx.HTTPStatusError
HandleHTTPStatusError(status, body) ==
    IF status = 401
    THEN AuthenticationError("WTL API authentication failed", "Invalid API token")
    ELSE IF status = 429
    THEN RateLimitError("Too many requests to API Core", "Rate limit exceeded")
    ELSE WTLServiceError("WTL service error",
                         IF BodyParses(body)
                         THEN ErrorOrUnknown(body.fields.error)
                         ELSE HTTPStatusErrorText)

\* WTLClient._make_request: the exception clauses applied to the try body.  An
\* exception raised by the try body that is neither a ReadTimeout nor an
\* HTTPStatusError is handled by `except Exception`.
_make_request(reply) ==
    LET t == TryBody(reply)
    IN [parsed |-> t.parsed,
        successful |-> t.successful,
        raised |->
            IF t.exc = "" THEN None
            ELSE IF t.exc = "ReadTimeout"
            THEN Some(ConnectionError("WTL service is not available", "Connection timeout"))
            ELSE IF t.exc = "HTTPStatusError"
            THEN Some(HandleHTTPStatusError(reply.status, reply.body))
            ELSE Some(InternalError("Internal server error", "Unexpected error occurred"))]

\* WTLClient.send_request
send_request(reply) == _make_request(reply)

\* ------------------------------------------------------------------ core/event_processor.py

HTTP_202_ACCEPTED == 202
HTTP_422_UNPROCESSABLE_ENTITY == 422
HTTP_500_INTERNAL_SERVER_ERROR == 500

\* JSONResponse(content={"message": f"Event ignored: {message}"}, status_code=202);
\* arg is the value interpolated into the message, when there is one.
Ignored(text, arg) ==
    [status |-> HTTP_202_ACCEPTED,
     message |-> [prefix |-> "Event ignored: ", text |-> text, arg |-> arg],
     error |-> None,
     type |-> None]

Processed_EventResponseDefault ==
    [status |-> HTTP_202_ACCEPTED,
     message |-> [prefix |-> "", text |-> "Event accepted for processing", arg |-> None],
     error |-> None,
     type |-> None]

\* JSONResponse(content={"message": "Event processed successfully"}, status_code=202)
Processed ==
    [status |-> HTTP_202_ACCEPTED,
     message |-> [prefix |-> "", text |-> "Event processed successfully", arg |-> None],
     error |-> None,
     type |-> None]

\* except WTLError: HTTPException(422, detail=e.error_response.model_dump())
WTLErrorResponse(error_response) ==
    [status |-> HTTP_422_UNPROCESSABLE_ENTITY,
     message |-> [prefix |-> "", text |-> error_response.message, arg |-> None],
     error |-> Some(error_response.error),
     type |-> Some(error_response.type)]

UnexpectedErrorResponse_Validation(exc) ==
    [status |-> HTTP_422_UNPROCESSABLE_ENTITY,
     message |-> [prefix |-> "", text |-> "Internal server error", arg |-> None],
     error |-> Some(exc),
     type |-> None]

\* except Exception: HTTPException(500, detail={"message": ..., "error": str(e)})
UnexpectedErrorResponse(exc) ==
    [status |-> HTTP_500_INTERNAL_SERVER_ERROR,
     message |-> [prefix |-> "", text |-> "Internal server error", arg |-> None],
     error |-> Some(exc),
     type |-> None]

\* `if not action`
NoAction(action) == IsNone(action)

ImsiMissing_OnlyNone(imsi) == IsNone(imsi)

\* `if not imsi`
ImsiMissing(imsi) == ~TruthyStr(imsi)

BillStatusOpen(ev) == get_bill_status(ev) = Some("open")

msisdn_list_UnlessBlocked(ev) ==
    IF BillStatusOpen(ev) /\ ~TruthyBool(get_block_status(ev))
    THEN <<get_account_id(ev)>> ELSE <<>>

\* msisdn_list = [] ; if bill status is open: msisdn_list = [get_account_id()]
msisdn_list(ev) ==
    IF BillStatusOpen(ev) THEN <<get_account_id(ev)>> ELSE <<>>

subscriber_status_IgnoresBlocked(ev) ==
    IF BillStatusOpen(ev) THEN "serviceGranted" ELSE "operatorDeterminedBarring"

subscriber_status(ev) ==
    IF ~TruthyBool(get_block_status(ev)) /\ BillStatusOpen(ev)
    THEN "serviceGranted"
    ELSE "operatorDeterminedBarring"

UnifiedSyncRequest_DefaultProfiles(ev, imsi, action) ==
    [imsi |-> imsi,
     subscriber_status |-> subscriber_status(ev),
     msisdn |-> msisdn_list(ev),
     cs_profile |-> WTL_DEFAULT_CS_PROFILE,
     eps_profile |-> WTL_DEFAULT_EPS_PROFILE,
     action |-> action]

\* UnifiedSyncRequest(imsi=..., subscriber_status=..., msisdn=..., ...)
UnifiedSyncRequest(ev, imsi, action) ==
    [imsi |-> imsi,
     subscriber_status |-> subscriber_status(ev),
     msisdn |-> msisdn_list(ev),
     cs_profile |-> get_cs_profile(ev),
     eps_profile |-> get_eps_profile(ev),
     action |-> action]

\* ------------------------------------------------------------------ state

VARIABLES
    settings,   \* the configuration loaded at start-up
    pc,         \* "idle", "awaiting" (the outbound POST is in flight) or "done"
    event,      \* the event being handled
    locals,     \* msisdn_list and subscriber_status once process_event computed them
    request,    \* the UnifiedSyncRequest handed to the client
    calls,      \* outbound POSTs made for the event
    reply,      \* what the outbound POST produced
    wtl,        \* what send_request did with it
    response,   \* the inbound HTTP response
    call,       \* a function of the field extractor applied on its own: name, argument, result
    inv,        \* per worker, where its send_request invocation is and the client it holds
    open,       \* the outbound HTTP clients that are open
    made,       \* outbound HTTP clients constructed so far
    fs,         \* copy_md.py: the files of the working tree, each a directory path and a name
    dirs,       \* copy_md.py: the directories of the working tree
    walk,       \* copy_md.py: the directories os.walk has still to visit, next one first
    cpc,        \* copy_md.py: "ready" (not running) or "walking"
    runs,       \* copy_md.py: completed runs of the script
    atStart     \* copy_md.py: the files at the start of the latest run

handlerVars == <<settings, pc, event, locals, request, calls, reply, wtl, response>>

clientVars == <<inv, open, made>>

copyVars == <<fs, dirs, walk, cpc, runs, atStart>>

vars == <<settings, pc, event, locals, request, calls, reply, wtl, response,
          call, inv, open, made, fs, dirs, walk, cpc, runs, atStart>>

Workers == 1..NumWorkers

\* No invocation of send_request in progress.
NoInvocation == [pc |-> "idle", client |-> 0, used |-> 0, outcome |-> "none"]

\* The service after start-up: no event in progress, no client constructed.
ServiceInit ==
    /\ settings \in [WTL_IMSI_REGEXP : ImsiRegexps]
    /\ pc = "idle"
    /\ event = None
    /\ locals = None
    /\ request = None
    /\ calls = 0
    /\ reply = None
    /\ wtl = None
    /\ response = None
    /\ call = None
    /\ inv = [w \in Workers |-> NoInvocation]
    /\ open = {}
    /\ made = 0

\* copy_md.py is not run and has no working tree.
CopyOff ==
    /\ fs = {}
    /\ dirs = {}
    /\ walk = <<>>
    /\ cpc = "ready"
    /\ runs = 0
    /\ atStart = {}

Init == ServiceInit /\ CopyOff

ProcessEvent_ImsiFirst(ev) ==
    /\ pc = "idle"
    /\ event' = Some(ev)
    /\ reply' = None
    /\ wtl' = None
    /\ UNCHANGED <<settings, call, clientVars, copyVars>>
    /\ LET action == EVENT_ACTION_MAP(get_event_type(ev))
           imsi == get_imsi_from_sim_info(ev)
           Stop(resp, loc) ==
               /\ response' = Some(resp)
               /\ locals' = loc
               /\ request' = None
               /\ calls' = 0
               /\ pc' = "done"
       IN IF ImsiMissing(imsi)
          THEN Stop(Ignored("IMSI is empty or not provided", None), None)
          ELSE IF NoAction(action)
          THEN Stop(Ignored("No defined action for event type: ",
                            Some(get_event_type(ev))), None)
          ELSE IF ~validate_imsi_using_regex(settings.WTL_IMSI_REGEXP, Val(imsi))
          THEN Stop(Ignored("IMSI doesn't follow the regexp provided", imsi), None)
          ELSE IF BillStatusOpen(ev) /\ get_account_id_raises(ev)
          THEN Stop(UnexpectedErrorResponse("TypeError"), None)
          ELSE LET loc == Some([msisdn_list |-> msisdn_list(ev),
                                subscriber_status |-> subscriber_status(ev)])
               IN IF ~UnifiedSyncRequestValid(Val(imsi), msisdn_list(ev),
                                              get_cs_profile(ev), get_eps_profile(ev))
                  THEN Stop(UnexpectedErrorResponse("ValidationError"), loc)
                  ELSE /\ locals' = loc
                       /\ request' = Some(UnifiedSyncRequest(ev, Val(imsi), Val(action)))
                       /\ calls' = 1
                       /\ response' = None
                       /\ pc' = "awaiting"

\* EventProcessor.process_event up to the outbound POST: the three filters, the
\* computation of the request's fields and its construction.
ProcessEvent(ev) ==
    /\ pc = "idle"
    /\ event' = Some(ev)
    /\ reply' = None
    /\ wtl' = None
    /\ UNCHANGED <<settings, call, clientVars, copyVars>>
    /\ LET action == EVENT_ACTION_MAP(get_event_type(ev))
           imsi == get_imsi_from_sim_info(ev)
           Stop(resp, loc) ==
               /\ response' = Some(resp)
               /\ locals' = loc
               /\ request' = None
               /\ calls' = 0
               /\ pc' = "done"
       IN IF NoAction(action)
          THEN Stop(Ignored("No defined action for event type: ",
                            Some(get_event_type(ev))), None)
          ELSE IF ImsiMissing(imsi)
          THEN Stop(Ignored("IMSI is empty or not provided", None), None)
          ELSE IF ~validate_imsi_using_regex(settings.WTL_IMSI_REGEXP, Val(imsi))
          THEN Stop(Ignored("IMSI doesn't follow the regexp provided", imsi), None)
          ELSE IF BillStatusOpen(ev) /\ get_account_id_raises(ev)
          THEN Stop(UnexpectedErrorResponse("TypeError"), None)
          ELSE LET loc == Some([msisdn_list |-> msisdn_list(ev),
                                subscriber_status |-> subscriber_status(ev)])
               IN IF ~UnifiedSyncRequestValid(Val(imsi), msisdn_list(ev),
                                              get_cs_profile(ev), get_eps_profile(ev))
                  THEN Stop(UnexpectedErrorResponse("ValidationError"), loc)
                  ELSE /\ locals' = loc
                       /\ request' = Some(UnifiedSyncRequest(ev, Val(imsi), Val(action)))
                       /\ calls' = 1
                       /\ response' = None
                       /\ pc' = "awaiting"

ProvisioningReply_RetryOnFailure(r) ==
    /\ pc = "awaiting"
    /\ IF ~IsNone(send_request(r).raised) /\ calls < 2
       THEN /\ calls' = calls + 1
            /\ UNCHANGED <<pc, reply, wtl, response>>
       ELSE /\ reply' = Some(r)
            /\ wtl' = Some(send_request(r))
            /\ response' = Some(IF IsNone(send_request(r).raised)
                                THEN Processed
                                ELSE WTLErrorResponse(Val(send_request(r).raised)))
            /\ pc' = "done"
            /\ UNCHANGED calls
    /\ UNCHANGED <<settings, event, locals, request, call, clientVars, copyVars>>

\* The outbound POST completes: send_request classifies what it produced and
\* process_event turns that into the inbound response.
ProvisioningReply(r) ==
    /\ pc = "awaiting"
    /\ reply' = Some(r)
    /\ wtl' = Some(send_request(r))
    /\ response' = Some(IF IsNone(send_request(r).raised)
                        THEN Processed
                        ELSE WTLErrorResponse(Val(send_request(r).raised)))
    /\ pc' = "done"
    /\ UNCHANGED <<settings, event, locals, request, calls, call, clientVars, copyVars>>

\* The response is returned and the handler is ready for the next event.
Respond ==
    /\ pc = "done"
    /\ pc' = "idle"
    /\ event' = None
    /\ locals' = None
    /\ request' = None
    /\ calls' = 0
    /\ reply' = None
    /\ wtl' = None
    /\ response' = None
    /\ UNCHANGED <<settings, call, clientVars, copyVars>>

\* settings.API_TOKEN and the bearer tokens a caller may present
API_TOKEN == "secret"

Tokens == {"secret", "wrong"}

HTTP_401_UNAUTHORIZED == 401

\* verify_token: a request whose bearer token is not the configured one is
\* answered with HTTPException(401, detail="Invalid access token") and the route
\* body is not run.
VerifyTokenRejects(tok) ==
    /\ pc = "idle"
    /\ tok # API_TOKEN
    /\ response' = Some([status |-> HTTP_401_UNAUTHORIZED,
                         message |-> [prefix |-> "", text |-> "Invalid access token",
                                      arg |-> None],
                         error |-> None,
                         type |-> None])
    /\ pc' = "done"
    /\ UNCHANGED <<settings, event, locals, request, calls, reply, wtl, call, clientVars, copyVars>>

Next ==
    \/ \E tok \in Tokens : VerifyTokenRejects(tok)
    \/ \E ev \in Events : ProcessEvent(ev)
    \/ \E r \in Replies : ProvisioningReply(r)
    \/ Respond

Spec == Init /\ [][Next]_vars

\* ------------------------------------------------------------------ concurrent send_request

\* How the body of the `with httpx.Client(...)` block can end: it returns the
\* parsed response, or raises WTLServiceError (unsuccessful body), an
\* HTTPStatusError, a transport error, or any other exception.
Outcomes == {"success", "unsuccessful_body", "http_error", "transport_error", "unexpected"}

\* `client.post(...)`: the client posted on is the one bound by this
\* invocation's with statement.
ClientUsed(w) == inv[w].client

ExitClosesClient_OnlyOnSuccess(outcome) == outcome = "success"

\* Leaving a with statement runs the client's __exit__, however the block ended.
ExitClosesClient(outcome) == TRUE

\* `with httpx.Client(timeout=..., headers=...) as client`: a new client is
\* constructed and opened for this invocation.
EnterWith(w) ==
    /\ inv[w].pc = "idle"
    /\ made < MaxClients
    /\ made' = made + 1
    /\ open' = open \cup {made + 1}
    /\ inv' = [inv EXCEPT ![w] = [pc |-> "entered", client |-> made + 1,
                                  used |-> 0, outcome |-> "none"]]
    /\ UNCHANGED <<copyVars, handlerVars, call>>

\* The POST and the handling of its response inside the with block.
Post(w, o) ==
    /\ inv[w].pc = "entered"
    /\ inv' = [inv EXCEPT ![w].pc = "posted", ![w].used = ClientUsed(w),
                          ![w].outcome = o]
    /\ UNCHANGED <<copyVars, handlerVars, call, open, made>>

\* Control leaves the with block, by return or by exception.
ExitWith(w) ==
    /\ inv[w].pc = "posted"
    /\ open' = IF ExitClosesClient(inv[w].outcome)
               THEN open \ {inv[w].client}
               ELSE open
    /\ inv' = [inv EXCEPT ![w].pc = "exited"]
    /\ UNCHANGED <<copyVars, handlerVars, call, made>>

\* The except clauses have run; send_request returns or raises to its caller.
ReturnOrRaise(w) ==
    /\ inv[w].pc = "exited"
    /\ inv' = [inv EXCEPT ![w].pc = "returned"]
    /\ UNCHANGED <<copyVars, handlerVars, call, open, made>>

\* The caller has dealt with the result; the worker takes its next event.
NextEvent(w) ==
    /\ inv[w].pc = "returned"
    /\ inv' = [inv EXCEPT ![w] = NoInvocation]
    /\ UNCHANGED <<copyVars, handlerVars, call, open, made>>

ClientInit == Init /\ settings.WTL_IMSI_REGEXP = PatNone

ClientNext ==
    \/ \E w \in Workers : EnterWith(w)
    \/ \E w \in Workers, o \in Outcomes : Post(w, o)
    \/ \E w \in Workers : ExitWith(w)
    \/ \E w \in Workers : ReturnOrRaise(w)
    \/ \E w \in Workers : NextEvent(w)

ClientSpec == ClientInit /\ [][ClientNext]_vars

\* ------------------------------------------------------------------ properties

\* The response is an 'Event ignored' answer with HTTP 202 and nothing was sent.
IgnoredWithoutCall ==
    /\ pc = "done"
    /\ ~IsNone(response)
    /\ Val(response).status = 202
    /\ Val(response).message.prefix = "Event ignored: "
    /\ calls = 0
    /\ IsNone(request)

\* The outbound call of the current event has completed.
Replied == pc = "done" /\ ~IsNone(reply) /\ ~IsNone(wtl)

\* send_request raised a classified failure of the given type.
RaisedType(t) == ~IsNone(Val(wtl).raised) /\ Val(Val(wtl).raised).type = t

\* The event's IMSI is absent (no enrichment block, no card-info block, null
\* IMSI) or the empty string.
EventImsiAbsentOrEmpty(ev) ==
    \/ IsNone(ev.pb_data)
    \/ IsNone(Val(ev.pb_data).sim_info)
    \/ IsNone(Val(Val(ev.pb_data).sim_info).imsi)
    \/ Val(Val(Val(ev.pb_data).sim_info).imsi) = <<>>

EventImsi(ev) == Val(Val(Val(ev.pb_data).sim_info).imsi)

EventAccountField(ev, f) ==
    IF IsNone(ev.pb_data) \/ IsNone(Val(ev.pb_data).account_info)
    THEN None
    ELSE Val(Val(ev.pb_data).account_info)[f]

EventBillOpen(ev) == EventAccountField(ev, "bill_status") = Some("open")

EventBlocked(ev) == EventAccountField(ev, "blocked") = Some(TRUE)

\* C1: a 2xx reply whose parsed body has a false derived success flag makes
\* send_request raise a failure of type service_error.
C1_UnsuccessfulBodyIsServiceError ==
    (/\ Replied
     /\ Val(reply).kind = "response"
     /\ IsSuccessStatus(Val(reply).status)
     /\ BodyParses(Val(reply).body)
     /\ ~is_successful(Val(reply).body.fields))
    => RaisedType("service_error")

\* C2: when the outbound call fails, the inbound status is 422, 500 or 503 chosen
\* by the failure's classification (connection failures 503, internal failures
\* 500), and the body carries message, error and type.
C2_StatusByClassification ==
    (Replied /\ ~IsNone(Val(wtl).raised))
    => /\ Val(response).status \in {422, 500, 503}
       /\ RaisedType("connection_error") => Val(response).status = 503
       /\ RaisedType("internal_error") => Val(response).status = 500
       /\ Val(response).message.text = Val(Val(wtl).raised).message
       /\ Val(response).error = Some(Val(Val(wtl).raised).error)
       /\ Val(response).type = Some(Val(Val(wtl).raised).type)

\* C3: the success flag computed from a parsed response is result when result is
\* present; otherwise true when message is present and error absent; otherwise
\* false when error is present; otherwise (all three absent) true.
C3_IsSuccessfulRule ==
    (~IsNone(wtl) /\ ~IsNone(Val(wtl).parsed))
    => LET f == Val(Val(wtl).parsed)
           answer == Val(Val(wtl).successful)
       IN /\ ~IsNone(f.result) => answer = Val(f.result)
          /\ (IsNone(f.result) /\ ~IsNone(f.message) /\ IsNone(f.error)) => answer = TRUE
          /\ (IsNone(f.result) /\ ~IsNone(f.error)) => answer = FALSE
          /\ (IsNone(f.result) /\ IsNone(f.message) /\ IsNone(f.error)) => answer = TRUE

C3_Witness ==
    /\ ~IsNone(wtl)
    /\ ~IsNone(Val(wtl).parsed)
    /\ IsNone(Val(Val(wtl).parsed).result)
    /\ ~IsNone(Val(Val(wtl).parsed).message)
    /\ ~IsNone(Val(Val(wtl).parsed).error)
    /\ Val(wtl).successful = Some(FALSE)

\* The classification of a non-2xx reply, with the error string taken from the
\* parsed body as unknownWhen(error) decides.
NonSuccessClassified(unknownWhen(_)) ==
    (Replied /\ Val(reply).kind = "response" /\ ~IsSuccessStatus(Val(reply).status))
    => LET st == Val(reply).status
           b == Val(reply).body
           raised == Val(Val(wtl).raised)
       IN /\ ~IsNone(Val(wtl).raised)
          /\ st = 401 => raised.type = "authentication_error"
          /\ st = 429 => raised.type = "rate_limit_error"
          /\ st \notin {401, 429} =>
                /\ raised.type = "service_error"
                /\ raised.error =
                      IF BodyParses(b)
                      THEN IF unknownWhen(b.fields.error)
                           THEN "Unknown error"
                           ELSE Val(b.fields.error)
                      ELSE HTTPStatusErrorText

ErrorAbsent(e) == IsNone(e)

ErrorAbsentOrEmpty(e) == IsNone(e) \/ Val(e) = ""

\* C4 as stated: on a non-2xx status, 401 is an authentication failure, 429 a
\* rate-limit failure, any other status a service failure whose error string is
\* the body's error field when the body parses ('Unknown error' when that field
\* is absent) and the generic fallback when it does not parse.
C4_Original == NonSuccessClassified(ErrorAbsent)

\* C4 as amended: the error string is 'Unknown error' when the parsed body's
\* error field is absent or the empty string.
C4_NonSuccessClassification == NonSuccessClassified(ErrorAbsentOrEmpty)

C4_Witness ==
    /\ Replied
    /\ Val(reply).kind = "response"
    /\ Val(reply).status = 404
    /\ BodyParses(Val(reply).body)
    /\ Val(reply).body.fields.error = Some("")
    /\ RaisedType("service_error")
    /\ Val(Val(wtl).raised).error = "Unknown error"

\* C5: every transport timeout of the outbound call (connect, read, write, pool)
\* is classified as a connection failure.
C5_TimeoutsAreConnectionErrors ==
    (Replied /\ Val(reply).kind = "exception" /\ Val(reply).exc \in TimeoutExceptions)
    => RaisedType("connection_error")

\* C6: an event whose type has no entry in the event-to-action map is answered
\* 'Event ignored' with HTTP 202 and no outbound call, whatever else it holds.
C6_UnmappedTypeIgnored ==
    (~IsNone(event) /\ Val(event).event_type # "SIM/Updated") => IgnoredWithoutCall

C6_Witness ==
    /\ ~IsNone(event)
    /\ Val(event).event_type = "SIM/Created"
    /\ ~EventImsiAbsentOrEmpty(Val(event))
    /\ EventImsi(Val(event)) = Imsi1
    /\ EventBillOpen(Val(event))
    /\ IgnoredWithoutCall
    /\ Val(response).message.text = "No defined action for event type: "

\* C7: an event with a mapped type whose IMSI is absent or empty is answered
\* 'Event ignored' with HTTP 202 and no outbound call.
C7_MissingImsiIgnored ==
    (/\ ~IsNone(event)
     /\ Val(event).event_type = "SIM/Updated"
     /\ EventImsiAbsentOrEmpty(Val(event)))
    => IgnoredWithoutCall

C7_Witness ==
    /\ ~IsNone(event)
    /\ Val(event).event_type = "SIM/Updated"
    /\ ~IsNone(Val(event).pb_data)
    /\ Val(Val(event).pb_data).sim_info = Some([imsi |-> Some(<<>>)])
    /\ IgnoredWithoutCall
    /\ Val(response).message.text = "IMSI is empty or not provided"

\* The event was ignored because its IMSI failed the pattern check.
RejectedByPattern ==
    /\ ~IsNone(response)
    /\ Val(response).message.text = "IMSI doesn't follow the regexp provided"

\* C8: with a pattern configured, an event whose IMSI does not match it is
\* answered 'Event ignored' with HTTP 202 and no outbound call; with no pattern
\* configured, no IMSI is rejected by the pattern check.
C8_PatternFilter ==
    (/\ ~IsNone(event)
     /\ Val(event).event_type = "SIM/Updated"
     /\ ~EventImsiAbsentOrEmpty(Val(event)))
    => LET pattern == settings.WTL_IMSI_REGEXP
       IN /\ (~IsNone(pattern) /\ ~ReSearch(Val(pattern), EventImsi(Val(event))))
                => IgnoredWithoutCall
          /\ IsNone(pattern) => ~RejectedByPattern

C8_Witness ==
    /\ ~IsNone(event)
    /\ Val(event).event_type = "SIM/Updated"
    /\ ~EventImsiAbsentOrEmpty(Val(event))
    /\ EventImsi(Val(event)) = Imsi1
    /\ settings.WTL_IMSI_REGEXP = PatInner
    /\ IgnoredWithoutCall
    /\ RejectedByPattern

\* C9: once request building is reached, the subscriber status is
\* 'serviceGranted' exactly when the account is not blocked and the bill status
\* is 'open', and 'operatorDeterminedBarring' otherwise; the request carries it.
C9_SubscriberStatus ==
    ~IsNone(locals)
    => LET granted == ~EventBlocked(Val(event)) /\ EventBillOpen(Val(event))
       IN /\ Val(locals).subscriber_status =
                 IF granted THEN "serviceGranted" ELSE "operatorDeterminedBarring"
          /\ ~IsNone(request)
                => Val(request).subscriber_status = Val(locals).subscriber_status

C9_Witness ==
    /\ ~IsNone(locals)
    /\ ~IsNone(request)
    /\ EventBlocked(Val(event))
    /\ EventBillOpen(Val(event))
    /\ Val(request).subscriber_status = "operatorDeterminedBarring"

\* C10: once request building is reached, the MSISDN list is [account reference]
\* exactly when the bill status is 'open' and empty otherwise, whatever the
\* blocked flag is; the request carries it.
C10_MsisdnList ==
    ~IsNone(locals)
    => /\ Val(locals).msisdn_list =
              IF EventBillOpen(Val(event))
              THEN <<get_account_id(Val(event))>>
              ELSE <<>>
       /\ ~IsNone(request) => Val(request).msisdn = Val(locals).msisdn_list

C10_Witness ==
    /\ ~IsNone(locals)
    /\ ~IsNone(request)
    /\ EventBlocked(Val(event))
    /\ EventBillOpen(Val(event))
    /\ Val(request).msisdn = <<Some(AccountDigits)>>

\* The event passes the three filters: mapped type, non-empty IMSI, IMSI accepted
\* by the pattern check.
PassesFilters(ev) ==
    /\ ev.event_type = "SIM/Updated"
    /\ ~EventImsiAbsentOrEmpty(ev)
    /\ \/ IsNone(settings.WTL_IMSI_REGEXP)
       \/ ReSearch(Val(settings.WTL_IMSI_REGEXP), EventImsi(ev))

\* C11: every event that passes the three filters has a provisioning request
\* built from its fields and sent: exactly one outbound call is made for it.
C11_PassingEventIsSent ==
    (~IsNone(event) /\ PassesFilters(Val(event)))
    => /\ calls = 1
       /\ ~IsNone(request)
       /\ Val(request).imsi = EventImsi(Val(event))
       /\ Val(request).action = "update"

C13_OwnClientClosedOnExit ==
    \A w \in Workers :
        /\ inv[w].client # 0
              => \A v \in Workers \ {w} : inv[v].client # inv[w].client
        /\ inv[w].used # 0 => inv[w].used = inv[w].client
        /\ inv[w].pc \in {"entered", "posted"} => inv[w].client \in open
        /\ inv[w].pc = "returned" => inv[w].client \notin open

C13_Witness ==
    \E w \in Workers, v \in Workers :
        /\ w # v
        /\ inv[w].pc = "returned"
        /\ inv[w].outcome = "unexpected"
        /\ inv[w].client \notin open
        /\ inv[v].pc = "posted"
        /\ inv[v].used = inv[v].client
        /\ inv[v].client \in open

\* The event was processed: its outbound call completed without a failure.
OutcomeProcessed == Replied /\ IsNone(Val(wtl).raised)

\* The event was ignored: it was handled and fails one of the three filters.
OutcomeIgnored == pc = "done" /\ ~IsNone(event) /\ ~PassesFilters(Val(event))

\* The accepted outcomes are answered HTTP 202 with the given message test.
AcceptedAnswered(processedMessage(_), ignoredMessage(_)) ==
    /\ OutcomeProcessed
          => Val(response).status = 202 /\ processedMessage(Val(response).message)
    /\ OutcomeIgnored
          => Val(response).status = 202 /\ ignoredMessage(Val(response).message)

IsAcceptedForProcessing(m) == m.prefix = "" /\ m.text = "Event accepted for processing"

IsProcessedSuccessfully(m) == m.prefix = "" /\ m.text = "Event processed successfully"

IsEventIgnored(m) == m.prefix = "Event ignored: "

AllDigits(str) == \A k \in 1..Len(str) : str[k] \in Digits

\* The account id has the form <digits>@msisdn.
IdIsDigitsAtMsisdn(id) ==
    /\ Len(id) > Len(Marker)
    /\ SubSeq(id, Len(id) - Len(Marker) + 1, Len(id)) = Marker
    /\ AllDigits(SubSeq(id, 1, Len(id) - Len(Marker)))

\* The end-to-end scenario: type 'SIM/Updated', a 15-digit IMSI accepted by the
\* pattern check, bill status 'open', blocked false, account id <digits>@msisdn.
ScenarioEvent(ev) ==
    /\ PassesFilters(ev)
    /\ Len(EventImsi(ev)) = 15
    /\ AllDigits(EventImsi(ev))
    /\ EventBillOpen(ev)
    /\ EventAccountField(ev, "blocked") = Some(FALSE)
    /\ ~IsNone(EventAccountField(ev, "id"))
    /\ IdIsDigitsAtMsisdn(Val(EventAccountField(ev, "id")))

\* The request the scenario expects for the event.
ScenarioRequest(ev) ==
    LET id == Val(EventAccountField(ev, "id"))
    IN [imsi |-> EventImsi(ev),
        subscriber_status |-> "serviceGranted",
        msisdn |-> <<Some(SubSeq(id, 1, Len(id) - Len(Marker)))>>,
        cs_profile |-> get_cs_profile(ev),
        eps_profile |-> get_eps_profile(ev),
        action |-> "update"]

\* The outbound call was answered 2xx with a body whose success flag is true.
RepliedSuccess ==
    /\ Replied
    /\ Val(reply).kind = "response"
    /\ IsSuccessStatus(Val(reply).status)
    /\ BodyParses(Val(reply).body)
    /\ is_successful(Val(reply).body.fields)

\* For a scenario event meeting the extra condition, the expected request is
\* sent, and a successful reply is answered 202 'Event processed successfully'.
ScenarioHolds(extra(_)) ==
    (~IsNone(event) /\ ScenarioEvent(Val(event)) /\ extra(Val(event)))
    => /\ request = Some(ScenarioRequest(Val(event)))
       /\ calls = 1
       /\ RepliedSuccess
             => /\ Val(response).status = 202
                /\ IsProcessedSuccessfully(Val(response).message)

AnyProfiles(ev) == TRUE

ValidProfiles(ev) ==
    /\ ProfileFieldValid(get_cs_profile(ev))
    /\ ProfileFieldValid(get_eps_profile(ev))

ErrorType ==
    {"validation_error", "authentication_error", "service_error",
     "connection_error", "rate_limit_error", "internal_error"}

\* The handler answered with a failure (an HTTP error status).
FailureResponse == pc = "done" /\ ~IsNone(response) /\ Val(response).status >= 400

\* C16: every failure response (failed provisioning call, unexpected exception,
\* validation error, rejected bearer token) carries one of the six error
\* classifications in its body.
C16_FailuresClassified ==
    FailureResponse
    => /\ ~IsNone(Val(response).type)
       /\ Val(Val(response).type) \in ErrorType

\* An exception that is not a WTLError is raised while handling the event: the
\* event passed the filters and no request could be built for it.
UnclassifiedException == ~IsNone(event) /\ PassesFilters(Val(event)) /\ IsNone(request)

\* The account id is read (bill status 'open') and is null.
OpenWithNullId(ev) ==
    /\ EventBillOpen(ev)
    /\ ~IsNone(Val(ev.pb_data).account_info)
    /\ IsNone(EventAccountField(ev, "id"))

AccountIds ==
    {None,
     Some(AccountDigits \o Marker),
     Some(AccountDigits),
     Some(<<>>),
     Some(Marker),
     Some(<<"1">> \o Marker \o <<"2">> \o Marker),
     Some(<<"1", "@", "m", "s">>),
     Some(<<"1">> \o Marker \o <<"x">>)}

\* Events that differ in the account block only.
AccountIdEvents ==
    [event_type : {"SIM/Updated"},
     pb_data : Opt([account_info : Opt([bill_status : {None}, blocked : {None},
                                        id : AccountIds]),
                    sim_info : {None},
                    access_policy_info : {None}])]

\* AccessPolicyAttribute values given to the profile lookup.
ProfileAttributes ==
    [name : {None, Some("cs_profile"), Some("eps_profile")},
     value : {None, Some(<<>>), Some(CsPolicy), Some(BadPolicy)}]

ProfileAttributeLists ==
    UNION { [1..n -> ProfileAttributes] : n \in 0..MaxProfileAttrs }

\* Events that differ in the access-policy block only.
ProfileEvents ==
    [event_type : {"SIM/Updated"},
     pb_data : Opt([account_info : {None},
                    sim_info : {None},
                    access_policy_info : Opt([attributes : ProfileAttributeLists])])]

ProfileNames == {"cs_profile", "eps_profile"}

\* Every accessor of PortaBillingEventProcessor is called on the event; the
\* call records what each returned and which of them raised.
CallAccessors(ev) ==
    /\ call = None
    /\ call' = Some([op |-> "accessors",
                     ev |-> ev,
                     raised |-> IF get_account_id_raises(ev)
                                THEN {"get_account_id"} ELSE {},
                     get_event_type |-> get_event_type(ev),
                     get_imsi_from_sim_info |-> get_imsi_from_sim_info(ev),
                     get_bill_status |-> get_bill_status(ev),
                     get_block_status |-> get_block_status(ev),
                     get_cs_profile |-> get_cs_profile(ev),
                     get_eps_profile |-> get_eps_profile(ev)])
    /\ UNCHANGED <<handlerVars, clientVars, copyVars>>

\* get_account_id is called on the event.
CallGetAccountId(ev) ==
    /\ call = None
    /\ call' = Some([op |-> "get_account_id",
                     ev |-> ev,
                     raised |-> get_account_id_raises(ev),
                     result |-> IF get_account_id_raises(ev)
                                THEN None ELSE get_account_id(ev)])
    /\ UNCHANGED <<handlerVars, clientVars, copyVars>>

\* get_cs_profile or get_eps_profile is called on the event.
CallGetProfile(name, ev) ==
    /\ call = None
    /\ call' = Some([op |-> "_get_profile",
                     ev |-> ev,
                     name |-> name,
                     result |-> IF name = "cs_profile"
                                THEN get_cs_profile(ev) ELSE get_eps_profile(ev)])
    /\ UNCHANGED <<handlerVars, clientVars, copyVars>>

\* The call returns.
CallReturn ==
    /\ call # None
    /\ call' = None
    /\ UNCHANGED <<handlerVars, clientVars, copyVars>>

PureInit == Init /\ settings.WTL_IMSI_REGEXP = PatNone

PureNext ==
    \/ \E ev \in Events : CallAccessors(ev)
    \/ \E ev \in AccountIdEvents : CallGetAccountId(ev)
    \/ \E name \in ProfileNames, ev \in ProfileEvents : CallGetProfile(name, ev)
    \/ CallReturn

PureSpec == PureInit /\ [][PureNext]_vars

\* ------------------------------------------------------------------ properties of the accessors

Called(op) == ~IsNone(call) /\ Val(call).op = op

\* C18: whatever blocks and fields of the event are absent or null, no accessor
\* raises.
C18_AccessorsNeverRaise == Called("accessors") => Val(call).raised = {}

\* The event's account id, when the account block is there and the id is a string.
HasStringId(ev) ==
    /\ ~IsNone(ev.pb_data)
    /\ ~IsNone(Val(ev.pb_data).account_info)
    /\ ~IsNone(EventAccountField(ev, "id"))

NoAccountInfo(ev) == IsNone(ev.pb_data) \/ IsNone(Val(ev.pb_data).account_info)

\* before \o Marker \o after = id, with no earlier occurrence of the marker
BeforeMarker(id, before) ==
    /\ Len(before) + Len(Marker) <= Len(id)
    /\ SubSeq(id, 1, Len(before) + Len(Marker)) = before \o Marker
    /\ \A n \in 0..(Len(before) - 1) :
           SubSeq(id, n + 1, n + Len(Marker)) # Marker

HasMarker(id) == \E n \in 0..Len(id) : BeforeMarker(id, SubSeq(id, 1, n))

\* C19: for an account id string that contains '@msisdn', get_account_id gives
\* the part of the id before the marker; for an id string without the marker,
\* and when there is no account info, it gives absence, never the raw id.
C19_AccountIdBeforeMarker ==
    Called("get_account_id")
    => LET ev == Val(call).ev
           result == Val(call).result
       IN /\ NoAccountInfo(ev) => (~Val(call).raised /\ IsNone(result))
          /\ HasStringId(ev)
                => LET id == Val(EventAccountField(ev, "id"))
                   IN /\ ~Val(call).raised
                      /\ HasMarker(id)
                            => (~IsNone(result) /\ BeforeMarker(id, Val(result)))
                      /\ ~HasMarker(id) => IsNone(result)

C19_Witness ==
    /\ Called("get_account_id")
    /\ HasStringId(Val(call).ev)
    /\ EventAccountField(Val(call).ev, "id") = Some(AccountDigits \o Marker)
    /\ Val(call).result = Some(AccountDigits)

\* The positions of the attributes named name.
Matching(attributes, name) ==
    {k \in 1..Len(attributes) : attributes[k].name = Some(name)}

\* The configured default of the profile.
DefaultOf(name) ==
    IF name = "cs_profile" THEN WTL_DEFAULT_CS_PROFILE ELSE WTL_DEFAULT_EPS_PROFILE

\* C20: get_cs_profile / get_eps_profile give the value of the first attribute
\* of the access-policy list that has the profile's name, when that value is
\* present and not empty; without an access-policy block, with an empty list,
\* with no attribute of that name, or when the first such attribute has a null
\* or empty value, they give the configured default.
C20_FirstMatchOrDefault ==
    Called("_get_profile")
    => LET ev == Val(call).ev
           name == Val(call).name
           policy == IF IsNone(ev.pb_data) THEN None
                     ELSE Val(ev.pb_data).access_policy_info
           attributes == IF IsNone(policy) THEN <<>> ELSE Val(policy).attributes
           pos == Matching(attributes, name)
           first == attributes[CHOOSE k \in pos : \A j \in pos : k <= j]
       IN IF pos # {} /\ ~IsNone(first.value) /\ Val(first.value) # <<>>
          THEN Val(call).result = Val(first.value)
          ELSE Val(call).result = DefaultOf(name)

\* The first attribute named eps_profile has a value, and a later one another.
C20_Witness ==
    /\ Called("_get_profile")
    /\ Val(call).name = "eps_profile"
    /\ ~IsNone(Val(call).ev.pb_data)
    /\ ~IsNone(Val(Val(call).ev.pb_data).access_policy_info)
    /\ Val(Val(Val(call).ev.pb_data).access_policy_info).attributes
          = << [name |-> Some("eps_profile"), value |-> Some(CsPolicy)],
               [name |-> Some("eps_profile"), value |-> Some(BadPolicy)] >>
    /\ Val(call).result = CsPolicy

\* ------------------------------------------------------------------ properties of the pipeline

\* C21: the early-exit checks run in the order action lookup, IMSI presence,
\* IMSI pattern.  The first one that fails gives the 'ignored' message on its
\* own: an unmapped type is 'no defined action' even with a missing or rejected
\* IMSI, a missing IMSI is reported before the pattern is tried, and nothing
\* after the failing check (the account id, the request) is evaluated.
C21_FirstFailingCheckDecides ==
    (pc = "done" /\ ~IsNone(event) /\ ~PassesFilters(Val(event)))
    => LET ev == Val(event)
           text == Val(response).message.text
       IN /\ IgnoredWithoutCall
          /\ IsNone(locals)
          /\ IF ev.event_type # "SIM/Updated"
             THEN text = "No defined action for event type: "
             ELSE IF EventImsiAbsentOrEmpty(ev)
             THEN text = "IMSI is empty or not provided"
             ELSE text = "IMSI doesn't follow the regexp provided"

\* An unmapped type together with a missing IMSI and a null id on an open account.
C21_Witness ==
    /\ pc = "done"
    /\ ~IsNone(event)
    /\ Val(event).event_type = "SIM/Created"
    /\ ~IsNone(Val(event).pb_data)
    /\ EventImsiAbsentOrEmpty(Val(event))
    /\ OpenWithNullId(Val(event))
    /\ settings.WTL_IMSI_REGEXP = PatInner
    /\ Val(response).message.text = "No defined action for event type: "

\* class SubscriberStatus(str, Enum)
SubscriberStatus == {"serviceGranted", "operatorDeterminedBarring"}

\* class WTLProvAction(str, Enum)
WTLProvAction == {"insert", "update", "delete", "set", "unset", "modify"}

\* The request satisfies the request schema.
SatisfiesSchema(req) ==
    /\ Len(req.imsi) = 15
    /\ AllDigits(req.imsi)
    /\ req.subscriber_status \in SubscriberStatus
    /\ Len(req.msisdn) <= 1
    /\ \A k \in 1..Len(req.msisdn) : ~IsNone(req.msisdn[k])
    /\ req.action \in WTLProvAction

\* The event's fields would give a request outside the schema: an IMSI that is
\* not 15 digits, or a null MSISDN entry (an open account whose id has no marker).
WouldViolateSchema(ev) ==
    \/ Len(EventImsi(ev)) # 15
    \/ ~AllDigits(EventImsi(ev))
    \/ /\ EventBillOpen(ev)
       /\ HasStringId(ev)
       /\ ~HasMarker(Val(EventAccountField(ev, "id")))

\* C22: every request sent to the provisioning core has a 15-digit IMSI, one of
\* the two subscriber statuses, at most one MSISDN which is a string, and an
\* enumerated action; an event whose fields would violate this gives no
\* outbound call.
C22_SentRequestsSatisfySchema ==
    /\ calls >= 1 => (~IsNone(request) /\ SatisfiesSchema(Val(request)))
    /\ ~IsNone(request) => SatisfiesSchema(Val(request))
    /\ (~IsNone(event) /\ PassesFilters(Val(event)) /\ WouldViolateSchema(Val(event)))
          => (calls = 0 /\ IsNone(request) /\ IsNone(reply))

C22_Witness ==
    /\ pc = "done"
    /\ ~IsNone(event)
    /\ PassesFilters(Val(event))
    /\ EventBillOpen(Val(event))
    /\ EventAccountField(Val(event), "id") = Some(AccountDigits)
    /\ calls = 0
    /\ IsNone(request)

\* ------------------------------------------------------------------ copy_md.py

\* Runs of the script on the same working tree.
MaxRuns == 2

\* A path is the sequence of its directory names from the working directory.
DOCS_DIR == <<"docs">>

\* os.path.join(DOCS_DIR, "md")
DEST_DIR == DOCS_DIR \o <<"md">>

\* llms.txt in the working directory
LLMS_FILE == [dir |-> <<>>, name |-> <<"l", "l", "m", "s", ".", "t", "x", "t">>]

NameMd == <<"a", ".", "m", "d">>
NameTxt == <<"a", ".", "t", "x", "t">>

\* The files a working tree may hold before the first run: markdown at the top
\* of docs/ and below it, a file that is not markdown, a markdown file already
\* in docs/md/, and llms.txt.
CandidateFiles ==
    { [dir |-> <<"docs">>, name |-> NameMd],
      [dir |-> <<"docs", "guide">>, name |-> NameMd],
      [dir |-> <<"docs">>, name |-> NameTxt],
      [dir |-> <<"docs", "md">>, name |-> NameMd],
      LLMS_FILE }

Trees == SUBSET CandidateFiles

\* os.makedirs(path, exist_ok=True): the path and the directories above it
MakeDirs(path) == {SubSeq(path, 1, n) : n \in 1..Len(path)}

\* The directories that hold the files.
DirsOf(files) == UNION {MakeDirs(f.dir) : f \in files}

\* f.endswith(suffix)
EndsWith(name, suffix) ==
    /\ Len(name) >= Len(suffix)
    /\ SubSeq(name, Len(name) - Len(suffix) + 1, Len(name)) = suffix

\* os.path.relpath(src_path, DOCS_DIR), for the directory of a file under docs/
RelPath(dir) == SubSeq(dir, Len(DOCS_DIR) + 1, Len(dir))

\* os.path.dirname(os.path.join(DEST_DIR, rel_path))
DestDir(dir) == DEST_DIR \o RelPath(dir)

\* What os.walk lists for a directory: its subdirectories and its files.
Children(top) ==
    {d \in dirs : Len(d) = Len(top) + 1 /\ SubSeq(d, 1, Len(top)) = top}

\* The files of the directory that pass `if f.endswith(".md")`.
MdFilesIn(top) == {f \in fs : f.dir = top /\ EndsWith(f.name, <<".", "m", "d">>)}

\* The orders in which the file system may list the directories.
Orders(S) ==
    {p \in [1..Cardinality(S) -> S] :
        \A i, j \in 1..Cardinality(S) : p[i] = p[j] => i = j}

\* The script starts: docs/md is created, llms.txt is copied into it when it
\* exists, and os.walk begins at docs/.
StartRun ==
    /\ cpc = "ready"
    /\ runs < MaxRuns
    /\ atStart' = fs
    /\ dirs' = dirs \cup MakeDirs(DEST_DIR)
    /\ fs' = IF LLMS_FILE \in fs
             THEN fs \cup {[dir |-> DEST_DIR, name |-> LLMS_FILE.name]}
             ELSE fs
    /\ walk' = <<DOCS_DIR>>
    /\ cpc' = "walking"
    /\ UNCHANGED <<runs, handlerVars, call, clientVars>>

\* os.walk yields the next directory, top-down: its subdirectories are listed
\* in an order of the file system's choosing and are visited after the loop
\* body has copied every markdown file of the directory to docs/md/<rel>.
VisitDir ==
    /\ cpc = "walking"
    /\ walk # <<>>
    /\ LET top == Head(walk)
       IN /\ \E order \in Orders(Children(top)) : walk' = order \o Tail(walk)
          /\ fs' = fs \cup {[dir |-> DestDir(f.dir), name |-> f.name] : f \in MdFilesIn(top)}
          /\ dirs' = dirs \cup UNION {MakeDirs(DestDir(f.dir)) : f \in MdFilesIn(top)}
    /\ UNCHANGED <<cpc, runs, atStart, handlerVars, call, clientVars>>

\* os.walk is exhausted and the script ends.
FinishRun ==
    /\ cpc = "walking"
    /\ walk = <<>>
    /\ cpc' = "ready"
    /\ runs' = runs + 1
    /\ UNCHANGED <<fs, dirs, walk, atStart, handlerVars, call, clientVars>>

CopyInit ==
    /\ ServiceInit
    /\ settings.WTL_IMSI_REGEXP = PatNone
    /\ fs \in Trees
    /\ dirs = DirsOf(fs)
    /\ walk = <<>>
    /\ cpc = "ready"
    /\ runs = 0
    /\ atStart = {}

CopyNext == StartRun \/ VisitDir \/ FinishRun

CopySpec == CopyInit /\ [][CopyNext]_vars

\* The files under docs/.
UnderDocs(files) == {f \in files : f.dir # <<>> /\ f.dir[1] = "docs"}

\* C23: a run of copy_md.py on the tree a first run produced leaves the set of
\* files under docs/ as it found it.
C23_Idempotent ==
    (cpc = "ready" /\ runs >= 2) => UnderDocs(fs) = UnderDocs(atStart)

====
